---- MODULE Spec2Model ----
(***************************************************************************)
(* A model of src/app.py, the Streamlit dashboard script: the cached       *)
(* loader (load_data), the three sidebar filters, the boolean-mask filter  *)
(* and the panels of one script run, with reruns of the script in the same *)
(* process.                                                                *)
(*                                                                         *)
(* Text is a sequence of tokens: "India, France" is <<"India", "France">>, *)
(* "90 min" is <<"90", " min">>, "January 15, 2020" is                     *)
(* <<"January", "15", "2020">>.  A frame is [cols, rows]: the set of its   *)
(* column names and the sequence of its rows, each row a function from     *)
(* column names to values plus the pandas index label idx.                 *)
(*                                                                         *)
(* out records the data-dependent elements a run renders (error, warning,  *)
(* metrics, each panel's plot or notice, table); titles and headers are    *)
(* left out.  The file on disk does not change during the process.  Where  *)
(* value_counts().head(10) has to choose among values of equal count, any  *)
(* choice is allowed.                                                      *)
(***************************************************************************)
EXTENDS Integers, Sequences, FiniteSets, TLC

\* ------------------------------------------------------------------ bounds
\* Longest CSV file (in rows) drawn from the row universe.
MaxRows == 2
\* Runs of the script in one process (the first run plus the reruns).
MaxRuns == 2
\* The wide catalogs hold TopN + 1 .. TopN + WideExtra distinct main genres.
WideExtra == 1

\* head(10) of the three value_counts() calls.
TopN == 10

\* ------------------------------------------------------------ pandas values
\* The missing value read_csv puts in an object column.
NaN == <<"<NaN>">>
\* The missing value of a datetime column.
NaT == [year |-> 0, month |-> 0, day |-> 0]
\* What to_datetime(errors='raise') answers for text it cannot parse.
Unparseable == [year |-> -1, month |-> -1, day |-> -1]

\* calendar.month_name[1:]
month_order ==
  <<"January", "February", "March", "April", "May", "June", "July",
    "August", "September", "October", "November", "December">>

\* The decimal numerals that occur in the files of the model.
Numeral ==
  ("01" :> 1) @@ ("1" :> 1) @@ ("2" :> 2) @@ ("15" :> 15) @@ ("20" :> 20) @@
  ("90" :> 90) @@ ("2019" :> 2019) @@ ("2020" :> 2020)

\* The cells read_csv turns into NaN (the empty cell, and "NA").
NAValues == {<<>>, <<"NA">>}

\* The text to_datetime reads as a missing date.
nat_strings == {<<"NaT">>}

MonthIndex(name) == CHOOSE i \in 1..12 : month_order[i] = name

\* Timestamp.month_name()
month_name(d) == IF d = NaT THEN NaN ELSE <<month_order[d.month]>>

\* pd.to_datetime(text, format='mixed') of one cell: "January 15, 2020" and
\* "2019-01-20" both parse; a nat string or NaN is NaT; anything else raises.
to_datetime(t) ==
  IF t = NaN \/ t \in nat_strings THEN NaT
  ELSE IF Len(t) = 3 /\ t[1] \in {month_order[i] : i \in 1..12}
          /\ t[2] \in DOMAIN Numeral /\ t[3] \in DOMAIN Numeral
       THEN [year |-> Numeral[t[3]], month |-> MonthIndex(t[1]), day |-> Numeral[t[2]]]
  ELSE IF Len(t) = 3 /\ \A i \in 1..3 : t[i] \in DOMAIN Numeral
       THEN [year |-> Numeral[t[1]], month |-> Numeral[t[2]], day |-> Numeral[t[3]]]
  ELSE Unparseable

\* ------------------------------------------------------------ the CSV files
Columns ==
  {"type", "rating", "release_year", "date_added", "country", "director",
   "cast", "listed_in", "duration"}

MovieRow ==
  [type |-> <<"Movie">>, rating |-> <<"PG">>, release_year |-> 2020,
   date_added |-> <<"January", "15", "2020">>,
   country |-> <<"United States">>, director |-> <<"D">>, cast |-> <<"A">>,
   listed_in |-> <<"Drama", "Action">>, duration |-> <<"90", " min">>]

ShowRow ==
  [type |-> <<"TV Show">>, rating |-> <<"TV-MA">>, release_year |-> 2019,
   date_added |-> <<"2019", "01", "20">>, country |-> <<"India">>,
   director |-> <<>>, cast |-> <<"A">>,
   listed_in |-> <<"Comedy">>, duration |-> <<"2", " Seasons">>]

\* The rows a file is made of: the two rows above and the movie row with one
\* cell changed (missing, malformed, or another value).
RowUniverse ==
  {MovieRow, ShowRow}
  \cup {[MovieRow EXCEPT !.rating = v] : v \in {<<>>, <<"TV-MA">>}}
  \cup {[MovieRow EXCEPT !.release_year = 2019]}
  \cup {[MovieRow EXCEPT !.date_added = v] :
          v \in {<<"NA">>, <<"NaT">>, <<"soon">>, <<"April", "1", "2020">>}}
  \cup {[MovieRow EXCEPT !.country = v] :
          v \in {<<>>, <<"India">>, <<"India", "France">>}}
  \cup {[MovieRow EXCEPT !.cast = <<>>]}
  \cup {[MovieRow EXCEPT !.duration = v] :
          v \in {<<>>, <<"abc", " min">>, <<"90", " min", "utes">>}}

GenreNames ==
  <<"g1", "g2", "g3", "g4", "g5", "g6", "g7", "g8", "g9", "g10", "g11",
    "g12", "g13">>

CountryNames ==
  <<"c1", "c2", "c3", "c4", "c5", "c6", "c7", "c8", "c9", "c10", "c11",
    "c12", "c13", "c14">>

\* A catalog of movies with n distinct main genres, more than head(10)
\* keeps: the first TopN - 1 genres are listed by two rows each, the others
\* by one, and a row of the i-th genre names the i-th and (i+1)-th country.
WideFile(n) ==
  [j \in 1..(n + TopN - 1) |->
     LET i == IF j <= 2 * (TopN - 1) THEN (j + 1) \div 2 ELSE j - (TopN - 1)
     IN  [MovieRow EXCEPT !.listed_in = <<GenreNames[i]>>,
                          !.country = <<CountryNames[i], CountryNames[i + 1]>>]]

Files ==
  UNION {[1..n -> RowUniverse] : n \in 0..MaxRows}
  \cup {WideFile(TopN + k) : k \in 1..WideExtra}

\* ------------------------------------------------------- frame operations
\* The frame pd.DataFrame() builds: no column, no row.
EmptyDataFrame == [cols |-> {}, rows |-> <<>>]

\* One cell of an object column as read_csv returns it.
ReadCell(c) == IF c \in NAValues THEN NaN ELSE c

\* pd.read_csv(filepath): the index is 0, 1, ...; release_year is an
\* integer column, every other column holds text or NaN.
read_csv(file) ==
  [cols |-> Columns,
   rows |-> [i \in 1..Len(file) |->
               [c \in Columns \cup {"idx"} |->
                  IF c = "idx" THEN i - 1
                  ELSE IF c = "release_year" THEN file[i][c]
                  ELSE ReadCell(file[i][c])]]]

\* data[col] = data[col].fillna(v)
fillna(data, col, v) ==
  [data EXCEPT !.rows =
     [i \in DOMAIN data.rows |->
        IF data.rows[i][col] = NaN THEN [data.rows[i] EXCEPT ![col] = v]
        ELSE data.rows[i]]]

\* data.dropna(subset=...): a new frame without the rows that hold NaN in
\* a column of the subset.
dropna(data, subset) ==
  LET Keep(r) == \A c \in subset : r[c] # NaN
  IN  [data EXCEPT !.rows = SelectSeq(data.rows, Keep)]

\* data[col] = values, values[i] being the value for the i-th row.
SetColumn(data, col, values) ==
  [cols |-> data.cols \cup {col},
   rows |-> [i \in DOMAIN data.rows |-> (col :> values[i]) @@ data.rows[i]]]

\* The values of a sequence, and the values of a column.
Range(s) == {s[i] : i \in DOMAIN s}
unique(data, col) == {data.rows[i][col] : i \in DOMAIN data.rows}

\* The index labels of a frame.
Index(data) == {data.rows[i].idx : i \in DOMAIN data.rows}

\* --------------------------------------------------------------- load_data
\* The body of load_data on a cache miss.  outcome is "ok" (the cleaned
\* table), "error" (FileNotFoundError caught: st.error and an empty frame)
\* or "raise" (the ValueError of pd.to_datetime, which no except clause
\* catches).
load_data_dropna_subset == {"rating", "date_added", "duration"}

load_data(fsys, filepath) ==
  IF filepath \notin DOMAIN fsys
  THEN [outcome |-> "error", data |-> EmptyDataFrame]
  ELSE
    LET read    == read_csv(fsys[filepath])
        filled  == fillna(fillna(fillna(read, "country", <<"Unknown">>),
                                 "director", <<"Unknown">>),
                          "cast", <<"Unknown">>)
        dropped == dropna(filled, load_data_dropna_subset)
        dates   == [i \in DOMAIN dropped.rows |->
                      to_datetime(dropped.rows[i].date_added)]
    IN  IF \E i \in DOMAIN dates : dates[i] = Unparseable
        THEN [outcome |-> "raise", data |-> EmptyDataFrame]
        ELSE [outcome |-> "ok", data |-> SetColumn(dropped, "date_added", dates)]

\* load_data('netflix_titles.csv')
FILEPATH == "netflix_titles.csv"

\* ------------------------------------------------------------------- state
VARIABLES
  fs,              \* the files on disk: path -> CSV rows (never written)
  cache,           \* st.cache_data of load_data: path -> result
  reads,           \* executions of the body of load_data so far
  run,             \* script runs started so far
  pc,              \* position of the current run in the script
  exception,       \* the exception that ended the run, "" if none
  out,             \* the elements rendered by the current run, in order
  df,              \* the catalog load_data returned
  type_filter, rating_filter, year_slider,
  filtered_df,
  metrics,         \* <<total_titles, total_movies, total_shows>>
  genre_df, genre_rating_counts,
  heatmap_data, heatmap_pivot,
  country_counts, rating_counts,
  box_data, box_data_top_10

sidebar == <<type_filter, rating_filter, year_slider>>
panels ==
  <<genre_df, genre_rating_counts, heatmap_data, heatmap_pivot,
    country_counts, rating_counts, box_data, box_data_top_10>>
process == <<fs, cache, reads, run>>
vars ==
  <<process, pc, exception, out, df, sidebar, filtered_df, metrics, panels>>

\* The value of a name the run has not bound yet.
Unbound == [cols |-> {"<unbound>"}, rows |-> <<>>]
NoCounts == <<>>

NoPivot == [index |-> <<>>, columns |-> <<>>, values |-> <<>>]

\* Every name of the script before the run binds it.
FreshRun ==
  /\ exception = ""
  /\ out = <<>>
  /\ df = Unbound
  /\ type_filter = {}
  /\ rating_filter = {}
  /\ year_slider = <<0, 0>>
  /\ filtered_df = Unbound
  /\ metrics = <<0, 0, 0>>
  /\ genre_df = Unbound
  /\ genre_rating_counts = {}
  /\ heatmap_data = Unbound
  /\ heatmap_pivot = NoPivot
  /\ country_counts = NoCounts
  /\ rating_counts = NoCounts
  /\ box_data = Unbound
  /\ box_data_top_10 = Unbound

\* The same values, as the assignment a rerun makes.
ResetRun ==
  /\ exception' = ""
  /\ out' = <<>>
  /\ df' = Unbound
  /\ type_filter' = {}
  /\ rating_filter' = {}
  /\ year_slider' = <<0, 0>>
  /\ filtered_df' = Unbound
  /\ metrics' = <<0, 0, 0>>
  /\ genre_df' = Unbound
  /\ genre_rating_counts' = {}
  /\ heatmap_data' = Unbound
  /\ heatmap_pivot' = NoPivot
  /\ country_counts' = NoCounts
  /\ rating_counts' = NoCounts
  /\ box_data' = Unbound
  /\ box_data_top_10' = Unbound

Init ==
  /\ fs \in {<<>>} \cup {(FILEPATH :> f) : f \in Files}
  /\ cache = <<>>
  /\ reads = 0
  /\ run = 1
  /\ pc = "load_data"
  /\ FreshRun

\* The run ends with an uncaught exception: Streamlit shows it and the rest
\* of the script is not executed.
Raise(name) ==
  /\ pc' = "failed"
  /\ exception' = name

\* Line 28, df = load_data('netflix_titles.csv') under @st.cache_data: the
\* body runs on a miss and its result is stored unless it raised; a hit
\* returns the stored table and replays the st.error the body emitted.
LoadData ==
  /\ pc = "load_data"
  /\ LET hit == FILEPATH \in DOMAIN cache
         res == IF hit THEN cache[FILEPATH] ELSE load_data(fs, FILEPATH)
     IN  /\ reads' = IF hit THEN reads ELSE reads + 1
         /\ cache' = IF hit \/ res.outcome = "raise" THEN cache
                     ELSE (FILEPATH :> res) @@ cache
         /\ IF res.outcome = "raise"
            THEN /\ Raise("ValueError")
                 /\ UNCHANGED <<out, df>>
            ELSE /\ pc' = "type_filter"
                 /\ df' = res.data
                 /\ out' = IF res.outcome = "error" THEN Append(out, "error")
                           ELSE out
                 /\ UNCHANGED exception
  /\ UNCHANGED <<fs, run, sidebar, filtered_df, metrics, panels>>

\* df[col] on a frame without that column raises KeyError.
HasColumn(data, col) == col \in data.cols

\* Lines 36-41, Filter 1: the options are the types of the catalog and the
\* multiselect returns any subset of them (all of them by default).
TypeFilter ==
  /\ pc = "type_filter"
  /\ IF ~HasColumn(df, "type")
     THEN /\ Raise("KeyError")
          /\ UNCHANGED type_filter
     ELSE /\ type_filter' \in SUBSET unique(df, "type")
          /\ pc' = "rating_filter"
          /\ UNCHANGED exception
  /\ UNCHANGED <<process, out, df, rating_filter, year_slider, filtered_df,
                 metrics, panels>>

\* Lines 44-49, Filter 2: the options are the ratings of the catalog.
RatingFilter ==
  /\ pc = "rating_filter"
  /\ IF ~HasColumn(df, "rating")
     THEN /\ Raise("KeyError")
          /\ UNCHANGED rating_filter
     ELSE /\ rating_filter' \in SUBSET unique(df, "rating")
          /\ pc' = "year_slider"
          /\ UNCHANGED exception
  /\ UNCHANGED <<process, out, df, type_filter, year_slider, filtered_df,
                 metrics, panels>>

Min(S) == CHOOSE x \in S : \A y \in S : x <= y
Max(S) == CHOOSE x \in S : \A y \in S : y <= x

\* Lines 52-59, Filter 3: int(df['release_year'].min()) is int(nan) on a
\* catalog without rows, a ValueError; otherwise the slider returns any
\* range lo <= hi within [min_year, max_year].
YearSlider ==
  /\ pc = "year_slider"
  /\ IF ~HasColumn(df, "release_year")
     THEN /\ Raise("KeyError")
          /\ UNCHANGED year_slider
     ELSE IF df.rows = <<>>
     THEN /\ Raise("ValueError")
          /\ UNCHANGED year_slider
     ELSE LET min_year == Min(unique(df, "release_year"))
              max_year == Max(unique(df, "release_year"))
          IN  /\ \E lo \in min_year..max_year : \E hi \in lo..max_year :
                   year_slider' = <<lo, hi>>
              /\ pc' = "filter"
              /\ UNCHANGED exception
  /\ UNCHANGED <<process, out, df, type_filter, rating_filter, filtered_df,
                 metrics, panels>>

\* The mask without its upper year bound.
FilterMask_NoUpperYear(r, types, ratings, years) ==
  /\ r.type \in types
  /\ r.rating \in ratings
  /\ r.release_year >= years[1]

\* The boolean mask of lines 62-67.
FilterMask(r, types, ratings, years) ==
  /\ r.type \in types
  /\ r.rating \in ratings
  /\ r.release_year >= years[1]
  /\ r.release_year <= years[2]

\* df[mask]: a new frame holding, in order, the rows of data at which the
\* boolean series mask is true.
BooleanIndex(data, mask) ==
  LET kept == {i \in DOMAIN data.rows : mask[i]}
  IN  [data EXCEPT !.rows =
         [k \in 1..Cardinality(kept) |->
            data.rows[CHOOSE i \in kept :
                        Cardinality({j \in kept : j < i}) = k - 1]]]

\* The filter without the filtered_df.empty short circuit: the panels are
\* computed on an empty view.
Filter_NoShortCircuit ==
  /\ pc = "filter"
  /\ filtered_df' =
       BooleanIndex(df, [i \in DOMAIN df.rows |->
                           FilterMask(df.rows[i], type_filter, rating_filter,
                                      year_slider)])
  /\ out' = out
  /\ pc' = "metrics"
  /\ UNCHANGED <<process, exception, df, sidebar, metrics, panels>>

\* Lines 62-71: the filtered view; an empty view ends the run with the
\* warning and nothing else.
Filter ==
  /\ pc = "filter"
  /\ filtered_df' =
       BooleanIndex(df, [i \in DOMAIN df.rows |->
                           FilterMask(df.rows[i], type_filter, rating_filter,
                                      year_slider)])
  /\ IF filtered_df'.rows = <<>>
     THEN /\ out' = Append(out, "warning")
          /\ pc' = "done"
     ELSE /\ out' = out
          /\ pc' = "metrics"
  /\ UNCHANGED <<process, exception, df, sidebar, metrics, panels>>

\* data[data[col] == v].shape[0]
CountRows(data, col, v) ==
  Len(BooleanIndex(data, [i \in DOMAIN data.rows |-> data.rows[i][col] = v]).rows)

\* Lines 76-84: the three metrics.
Metrics ==
  /\ pc = "metrics"
  /\ metrics' = <<Len(filtered_df.rows),
                  CountRows(filtered_df, "type", <<"Movie">>),
                  CountRows(filtered_df, "type", <<"TV Show">>)>>
  /\ out' = Append(out, "metrics")
  /\ pc' = "plot1"
  /\ UNCHANGED <<process, exception, df, sidebar, filtered_df, panels>>

\* ------------------------------------------------------------- aggregation
\* Series.value_counts(): value -> number of occurrences, NaN left out.
value_counts(s) ==
  [v \in Range(s) \ {NaN} |-> Cardinality({i \in DOMAIN s : s[i] = v})]

\* head() that keeps every value.
head_NoLimit(counts, n) == {DOMAIN counts}

\* The key sets value_counts().head(n) can keep: the n most frequent values,
\* in any order pandas may leave values of equal count in.
head(counts, n) ==
  {S \in SUBSET DOMAIN counts :
     /\ Cardinality(S) = IF Cardinality(DOMAIN counts) < n
                         THEN Cardinality(DOMAIN counts) ELSE n
     /\ \A a \in S : \A b \in (DOMAIN counts) \ S : counts[a] >= counts[b]}

\* The column col of data as a sequence.
Column(data, col) == [i \in DOMAIN data.rows |-> data.rows[i][col]]

\* listed_in.str.split(', ').str[0]
main_genre(listed_in) == <<Head(listed_in)>>

\* groupby(keys).size() over rows whose keys are all present: the set of
\* [key columns..., count] records, one per observed key combination.
GroupSize(data, k1, k2, missing1, missing2) ==
  LET Present(r) == r[k1] # missing1 /\ r[k2] # missing2
      rows == SelectSeq(data.rows, Present)
      keys == {<<rows[i][k1], rows[i][k2]>> : i \in DOMAIN rows}
  IN  {[key |-> k,
        count |-> Cardinality({i \in DOMAIN rows :
                                 <<rows[i][k1], rows[i][k2]>> = k})] :
         k \in keys}

\* Lines 93-116, Plot 1: rating breakdown of the ten most frequent main
\* genres.  main_genre is added to genre_df, the frame dropna returned.
Plot1 ==
  /\ pc = "plot1"
  /\ LET dropped == dropna(filtered_df, {"listed_in", "rating"})
         withGenre == SetColumn(dropped, "main_genre",
                        [i \in DOMAIN dropped.rows |->
                           main_genre(dropped.rows[i].listed_in)])
     IN  \E top_10_genres \in
              head(value_counts(Column(withGenre, "main_genre")), TopN) :
           LET top_genres_df ==
                 BooleanIndex(withGenre, [i \in DOMAIN withGenre.rows |->
                                withGenre.rows[i].main_genre \in top_10_genres])
           IN  /\ genre_df' = withGenre
               /\ genre_rating_counts' =
                    GroupSize(top_genres_df, "main_genre", "rating", NaN, NaN)
  /\ out' = Append(out, IF genre_rating_counts' # {} THEN "plot1" ELSE "info1")
  /\ pc' = "plot2"
  /\ UNCHANGED <<process, exception, df, sidebar, filtered_df, metrics,
                 heatmap_data, heatmap_pivot, country_counts, rating_counts,
                 box_data, box_data_top_10>>

\* The elements of the finite set S in ascending order of rank[x].
SortBy(S, rank) ==
  [i \in 1..Cardinality(S) |->
     CHOOSE x \in S : Cardinality({y \in S : rank[y] < rank[x]}) = i - 1]

\* The position of a month name in alphabetical order, the order of the
\* month_added column without the Categorical.
Alphabetical ==
  <<"April", "August", "December", "February", "January", "July", "June",
    "March", "May", "November", "October", "September">>
CategoryCode_Alphabetical(m) == CHOOSE i \in 1..12 : Alphabetical[i] = m[1]

\* The position of a month in pd.Categorical(categories=month_order).
CategoryCode(m) == MonthIndex(m[1])

\* DataFrame.pivot(index='year_added', columns='month_added',
\* values='count').fillna(0): the observed years ascending, the observed
\* months in category order, and a count or 0 in every cell.
pivot(grouped) ==
  LET years  == {g.key[1] : g \in grouped}
      months == {g.key[2] : g \in grouped}
  IN  [index   |-> SortBy(years, [y \in years |-> y]),
       columns |-> SortBy(months, [m \in months |-> CategoryCode(m)]),
       values  |-> [c \in years \X months |->
                      IF \E g \in grouped : g.key = c
                      THEN (CHOOSE g \in grouped : g.key = c).count
                      ELSE 0]]

\* Plot 2 computed on the filtered view's table itself instead of a copy:
\* the two derived columns land in the catalog and the filtered view.
Plot2_NoCopy ==
  /\ pc = "plot2"
  /\ LET dates == Column(filtered_df, "date_added")
         withMonth == SetColumn(filtered_df, "month_added",
                        [i \in DOMAIN dates |-> month_name(dates[i])])
     IN  heatmap_data' = SetColumn(withMonth, "year_added",
                           [i \in DOMAIN dates |-> dates[i].year])
  /\ heatmap_pivot' =
       pivot(GroupSize(heatmap_data', "year_added", "month_added", NaT.year, NaN))
  /\ out' = Append(out, IF heatmap_pivot'.index # <<>> THEN "plot2" ELSE "info2")
  /\ pc' = "plot3"
  /\ filtered_df' = heatmap_data'
  /\ df' = SetColumn(SetColumn(df, "month_added",
                               [i \in DOMAIN df.rows |-> month_name(df.rows[i].date_added)]),
                     "year_added", [i \in DOMAIN df.rows |-> df.rows[i].date_added.year])
  /\ UNCHANGED <<process, exception, sidebar, metrics,
                 genre_df, genre_rating_counts, country_counts, rating_counts,
                 box_data, box_data_top_10>>

\* Lines 121-146, Plot 2: the Year x Month heatmap, computed on a copy.
Plot2 ==
  /\ pc = "plot2"
  /\ LET dates == Column(filtered_df, "date_added")
         withMonth == SetColumn(filtered_df, "month_added",
                        [i \in DOMAIN dates |-> month_name(dates[i])])
     IN  heatmap_data' = SetColumn(withMonth, "year_added",
                           [i \in DOMAIN dates |-> dates[i].year])
  /\ heatmap_pivot' =
       pivot(GroupSize(heatmap_data', "year_added", "month_added", NaT.year, NaN))
  /\ out' = Append(out, IF heatmap_pivot'.index # <<>> THEN "plot2" ELSE "info2")
  /\ pc' = "plot3"
  /\ UNCHANGED <<process, exception, df, sidebar, filtered_df, metrics,
                 genre_df, genre_rating_counts, country_counts, rating_counts,
                 box_data, box_data_top_10>>

\* Series.str.split(', ').explode(): the tokens of every text, in row order.
RECURSIVE explode(_)
explode(s) == IF s = <<>> THEN <<>> ELSE Head(s) \o explode(Tail(s))

\* A value_counts() restricted to the keys head() kept.
Restrict(counts, S) == [k \in S |-> counts[k]]

\* Lines 153-173, Plot 3: the ten most frequent production countries, the
\* rows whose country is "Unknown" and the token "United States" left out.
Plot3 ==
  /\ pc = "plot3"
  /\ LET known == BooleanIndex(filtered_df, [i \in DOMAIN filtered_df.rows |->
                          filtered_df.rows[i].country # <<"Unknown">>])
         country_data == explode(Column(known, "country"))
         NotUsa(c) == c # "United States"
         country_data_no_usa == SelectSeq(country_data, NotUsa)
         counts == value_counts(country_data_no_usa)
     IN  IF country_data_no_usa # <<>>
         THEN /\ \E S \in head(counts, TopN) : country_counts' = Restrict(counts, S)
              /\ out' = Append(out, "plot3")
         ELSE /\ country_counts' = country_counts
              /\ out' = Append(out, "info3")
  /\ pc' = "plot4"
  /\ UNCHANGED <<process, exception, df, sidebar, filtered_df, metrics,
                 genre_df, genre_rating_counts, heatmap_data, heatmap_pivot,
                 rating_counts, box_data, box_data_top_10>>

\* Lines 176-192, Plot 4: the rating distribution.
Plot4 ==
  /\ pc = "plot4"
  /\ rating_counts' = value_counts(Column(filtered_df, "rating"))
  /\ out' = Append(out, IF DOMAIN rating_counts' # {} THEN "plot4" ELSE "info4")
  /\ pc' = "plot5"
  /\ UNCHANGED <<process, exception, df, sidebar, filtered_df, metrics,
                 genre_df, genre_rating_counts, heatmap_data, heatmap_pivot,
                 country_counts, box_data, box_data_top_10>>

\* Series.str.contains(' min', na=False)
contains_min(text) == text # NaN /\ \E i \in DOMAIN text : text[i] = " min"

\* Series.str.replace(' min', '')
replace_min(text) == LET Other(t) == t # " min" IN SelectSeq(text, Other)

\* int(text): what astype(int) accepts, a single decimal numeral.
IsInt(text) == Len(text) = 1 /\ text[1] \in DOMAIN Numeral
astype_int(text) == Numeral[text[1]]

\* Lines 199-224, Plot 5: movie runtimes of the ten most frequent main
\* genres.  astype(int) converts the whole column and raises ValueError when
\* one value is not a numeral.
Plot5 ==
  /\ pc = "plot5"
  /\ LET movies == BooleanIndex(filtered_df, [i \in DOMAIN filtered_df.rows |->
                           /\ filtered_df.rows[i].type = <<"Movie">>
                           /\ contains_min(filtered_df.rows[i].duration)])
         selected == dropna(movies, {"listed_in"})
         stripped == [i \in DOMAIN selected.rows |->
                        replace_min(selected.rows[i].duration)]
     IN  IF selected.rows = <<>>
         THEN /\ box_data' = selected
              /\ out' = Append(out, "info5")
              /\ pc' = "table"
              /\ UNCHANGED <<exception, box_data_top_10>>
         ELSE IF \E i \in DOMAIN stripped : ~IsInt(stripped[i])
         THEN /\ box_data' = selected
              /\ Raise("ValueError")
              /\ UNCHANGED <<out, box_data_top_10>>
         ELSE LET withInt == SetColumn(selected, "duration_int",
                               [i \in DOMAIN stripped |-> astype_int(stripped[i])])
                  withGenre == SetColumn(withInt, "main_genre",
                                 [i \in DOMAIN withInt.rows |->
                                    main_genre(withInt.rows[i].listed_in)])
              IN  /\ box_data' = withGenre
                  /\ \E top_10_genres_box \in
                         head(value_counts(Column(withGenre, "main_genre")), TopN) :
                       box_data_top_10' =
                         BooleanIndex(withGenre, [i \in DOMAIN withGenre.rows |->
                           withGenre.rows[i].main_genre \in top_10_genres_box])
                  /\ out' = Append(out, "plot5")
                  /\ pc' = "table"
                  /\ UNCHANGED exception
  /\ UNCHANGED <<process, df, sidebar, filtered_df, metrics, genre_df,
                 genre_rating_counts, heatmap_data, heatmap_pivot,
                 country_counts, rating_counts>>

\* Lines 228-229: the table of the filtered view.
DataTable ==
  /\ pc = "table"
  /\ out' = Append(out, "table")
  /\ pc' = "done"
  /\ UNCHANGED <<process, exception, df, sidebar, filtered_df, metrics, panels>>

\* A widget change or a reload runs the script again from the top, in the
\* same process: the cache is kept, every name of the script is unbound.
Rerun ==
  /\ pc \in {"done", "failed"}
  /\ run < MaxRuns
  /\ run' = run + 1
  /\ pc' = "load_data"
  /\ ResetRun
  /\ UNCHANGED <<fs, cache, reads>>

Next ==
  \/ LoadData
  \/ TypeFilter
  \/ RatingFilter
  \/ YearSlider
  \/ Filter
  \/ Metrics
  \/ Plot1
  \/ Plot2
  \/ Plot3
  \/ Plot4
  \/ Plot5
  \/ DataTable
  \/ Rerun

Spec == Init /\ [][Next]_vars

\* ------------------------------------------------------------------ claims
RunEnded == pc \in {"done", "failed"}
FileExists == FILEPATH \in DOMAIN fs
Loaded == df # Unbound
Filtered == filtered_df # Unbound
Rendered(e) == e \in Range(out)

\* C1: the filtered view is exactly the catalog rows whose type is in the
\* type set, whose rating is in the rating set and whose release_year lies
\* in the inclusive year range: nothing from outside the catalog, nothing
\* kept that violates a predicate, nothing dropped that satisfies all three,
\* and no row twice.
C1_FilterExact ==
  Filtered =>
    /\ Range(filtered_df.rows) =
         {r \in Range(df.rows) :
            /\ r.type \in type_filter
            /\ r.rating \in rating_filter
            /\ year_slider[1] <= r.release_year
            /\ r.release_year <= year_slider[2]}
    /\ Cardinality(Index(filtered_df)) = Len(filtered_df.rows)
    /\ filtered_df.cols = df.cols

\* A run whose view keeps a row and drops another one that is of a selected
\* type and a selected rating, for its year alone: it lies above the range.
C1_Witness ==
  /\ pc = "done"
  /\ Filtered
  /\ filtered_df.rows # <<>>
  /\ \E r \in Range(df.rows) :
       /\ r.type \in type_filter
       /\ r.rating \in rating_filter
       /\ r.release_year > year_slider[2]

\* C2: when the input file does not exist, the run reports the error, goes on
\* with an empty table and ends in the 'no data' display without raising.
C2_MissingFileNoCrash ==
  (~FileExists /\ RunEnded) =>
    /\ exception = ""
    /\ Rendered("error")
    /\ df = EmptyDataFrame
    /\ Rendered("warning")

\* C3: a run whose filtered view is empty (every run with an empty type set
\* is one) emits exactly the one warning, computes no aggregator, renders no
\* metric, panel or table, and raises nothing.
C3_EmptyViewOneWarning ==
  /\ (Filtered /\ type_filter = {}) => filtered_df.rows = <<>>
  /\ (Filtered /\ filtered_df.rows = <<>>) =>
       /\ pc = "done"
       /\ exception = ""
       /\ out = <<"warning">>
       /\ metrics = <<0, 0, 0>>
       /\ genre_df = Unbound /\ genre_rating_counts = {}
       /\ heatmap_data = Unbound /\ heatmap_pivot = NoPivot
       /\ country_counts = NoCounts /\ rating_counts = NoCounts
       /\ box_data = Unbound /\ box_data_top_10 = Unbound

\* An empty type set with every rating and the full year range selected, on a
\* catalog that has rows.
C3_Witness ==
  /\ pc = "done"
  /\ Filtered
  /\ df.rows # <<>>
  /\ type_filter = {}
  /\ rating_filter = unique(df, "rating")
  /\ year_slider = <<Min(unique(df, "release_year")), Max(unique(df, "release_year"))>>
  /\ out = <<"warning">>

\* C4: the table load returns for a file that exists holds no null rating,
\* date_added or duration, and no null country, director or cast.
C4_NoNullAfterLoad ==
  (FileExists /\ Loaded) =>
    \A r \in Range(df.rows) :
      /\ r.rating # NaN
      /\ r.date_added # NaT
      /\ r.duration # NaN
      /\ r.country # NaN /\ r.director # NaN /\ r.cast # NaN

\* C5: over the reruns of one process the body of load_data runs at most
\* once for the path.
C5_ReadAtMostOnce == reads <= 1

\* The sum of the counts of a value_counts(), of a set of groups, and the
\* number of tokens of a sequence of texts.
RECURSIVE SumCounts(_)
SumCounts(c) ==
  IF DOMAIN c = {} THEN 0
  ELSE LET k == CHOOSE x \in DOMAIN c : TRUE
       IN  c[k] + SumCounts([x \in (DOMAIN c) \ {k} |-> c[x]])

RECURSIVE SumGroups(_)
SumGroups(G) ==
  IF G = {} THEN 0
  ELSE LET g == CHOOSE x \in G : TRUE IN g.count + SumGroups(G \ {g})

GenresOf(G) == {g.key[1] : g \in G}

\* C6 as stated: each top-N aggregator returns at most N groups and counts
\* that sum to at most the number of rows of the filtered view.
C6_CountsWithinRows ==
  Filtered =>
    /\ Cardinality(GenresOf(genre_rating_counts)) <= TopN
    /\ SumGroups(genre_rating_counts) <= Len(filtered_df.rows)
    /\ Cardinality(DOMAIN country_counts) <= TopN
    /\ SumCounts(country_counts) <= Len(filtered_df.rows)

\* C6 amended: each top-N aggregator returns at most N groups; the main
\* genre counts sum to at most the number of rows of the filtered view, and
\* the country counts to at most the number of country names the rows of the
\* filtered view list (a row counts once for every country it lists).
C6_TopNBounded ==
  Filtered =>
    /\ Cardinality(GenresOf(genre_rating_counts)) <= TopN
    /\ SumGroups(genre_rating_counts) <= Len(filtered_df.rows)
    /\ Cardinality(DOMAIN country_counts) <= TopN
    /\ SumCounts(country_counts) <= Len(explode(Column(filtered_df, "country")))

\* A run on a view with more than N main genres and more than N countries:
\* both aggregators returned exactly N groups, and the country counts sum to
\* more than the number of rows.
C6_Witness ==
  /\ pc = "done"
  /\ exception = ""
  /\ Cardinality(unique(genre_df, "main_genre")) > TopN
  /\ Cardinality(GenresOf(genre_rating_counts)) = TopN
  /\ Cardinality(Range(explode(Column(filtered_df, "country")))) > TopN
  /\ Cardinality(DOMAIN country_counts) = TopN
  /\ SumCounts(country_counts) > Len(filtered_df.rows)

\* C7: after load no step of a run changes the catalog or, once computed,
\* the filtered view; the cached table never changes, and the catalog of
\* every run is the cached table, so a rerun filters the same rows.
C7_CatalogImmutable ==
  [][/\ (pc # "load_data" /\ pc' # "load_data") =>
          /\ df' = df
          /\ Filtered => filtered_df' = filtered_df
     /\ (FILEPATH \in DOMAIN cache) => cache' = cache
     /\ (df' # Unbound) => df' = cache'[FILEPATH].data]_vars

\* The second run has computed its panels: the derived columns are in the
\* aggregators' frames and not in the catalog, which is the cached table.
C7_Witness ==
  /\ run = 2
  /\ pc = "done"
  /\ "main_genre" \in genre_df.cols
  /\ {"month_added", "year_added"} \subseteq heatmap_data.cols
  /\ {"duration_int", "main_genre"} \subseteq box_data.cols
  /\ df.cols = Columns
  /\ filtered_df.cols = Columns
  /\ df.rows # <<>>
  /\ df = cache[FILEPATH].data

\* A movie row whose duration holds " min" and is not a numeral once " min"
\* is stripped.
BadRuntimeRow(r) ==
  /\ r.type = <<"Movie">>
  /\ contains_min(r.duration)
  /\ r.listed_in # NaN
  /\ ~IsInt(replace_min(r.duration))

GoodRuntimeRow(r) ==
  /\ r.type = <<"Movie">>
  /\ contains_min(r.duration)
  /\ r.listed_in # NaN
  /\ IsInt(replace_min(r.duration))

\* C8: a movie row of the filtered view with an unparseable duration is left
\* out of the runtime aggregator only: the run does not raise, the other
\* movie rows are aggregated, and the table of the filtered view is shown.
C8_BadDurationExcludedOnly ==
  (RunEnded /\ Filtered /\ \E r \in Range(filtered_df.rows) : BadRuntimeRow(r)) =>
    /\ exception = ""
    /\ Index(box_data_top_10) =
         {r.idx : r \in {x \in Range(filtered_df.rows) : GoodRuntimeRow(x)}}
    /\ Rendered("table")

\* The panel groups of C9, read off the filtered view.
NoCountryGroup ==
  \A r \in Range(filtered_df.rows) :
    r.country = <<"Unknown">> \/ \A i \in DOMAIN r.country : r.country[i] = "United States"
NoRuntimeGroup ==
  \A r \in Range(filtered_df.rows) :
    ~(r.type = <<"Movie">> /\ contains_min(r.duration) /\ r.listed_in # NaN)

\* C9: when the filtered view is not empty and the runtime panel or the
\* countries panel has nothing to show, that panel shows its notice and the
\* metrics, the other panels and the table are rendered in the same run.
C9_EmptyPanelSiblingsRender ==
  (RunEnded /\ Filtered /\ filtered_df.rows # <<>>
     /\ (NoCountryGroup \/ NoRuntimeGroup)) =>
    /\ exception = ""
    /\ NoCountryGroup => Rendered("info3")
    /\ NoRuntimeGroup => Rendered("info5")
    /\ Len(out) = 7
    /\ out[1] = "metrics"
    /\ out[2] \in {"plot1", "info1"}
    /\ out[3] \in {"plot2", "info2"}
    /\ out[4] \in {"plot3", "info3"}
    /\ out[5] \in {"plot4", "info4"}
    /\ out[6] \in {"plot5", "info5"}
    /\ out[7] = "table"

\* The rows of the filtered view added in month m (a name) of year y.
AddedIn(y, m) ==
  Cardinality({r \in Range(filtered_df.rows) :
                 /\ r.date_added # NaT
                 /\ r.date_added.year = y
                 /\ month_order[r.date_added.month] = m})

\* C10: the heatmap has a cell for every (year, month) in which a row of the
\* filtered view was added, every cell holds the number of rows added in
\* that month of that year (zero when there is none), the years ascend and
\* the months are in calendar order.
C10_HeatmapCells ==
  (heatmap_data # Unbound) =>
    LET years == heatmap_pivot.index
        months == heatmap_pivot.columns
    IN  /\ \A r \in Range(filtered_df.rows) :
             r.date_added # NaT =>
               /\ r.date_added.year \in Range(years)
               /\ <<month_order[r.date_added.month]>> \in Range(months)
        /\ \A i \in DOMAIN years : \A j \in DOMAIN months :
             heatmap_pivot.values[<<years[i], months[j]>>] =
               AddedIn(years[i], months[j][1])
        /\ \A i \in DOMAIN years : \A j \in DOMAIN years :
             i < j => years[i] < years[j]
        /\ \A i \in DOMAIN months : \A j \in DOMAIN months :
             i < j => MonthIndex(months[i][1]) < MonthIndex(months[j][1])

\* Two rows added in January of two years: two cells of one row each, the
\* earlier year first.
C10_Witness ==
  /\ pc = "done"
  /\ Len(filtered_df.rows) = 2
  /\ heatmap_pivot.index = <<2019, 2020>>
  /\ heatmap_pivot.columns = << <<"January">> >>
  /\ heatmap_pivot.values[<<2019, <<"January">> >>] = 1
  /\ heatmap_pivot.values[<<2020, <<"January">> >>] = 1

====
